---- MODULE Spec2Model ----
(***************************************************************************)
(* Storefront core of Nextjs-Ecommerce: product stock, orders, Stripe      *)
(* checkout sessions and the server actions that change them               *)
(* (server/actions/admin.ts, server/actions/checkout.ts,                   *)
(* server/actions/products.ts).  Every server action is a sequence of      *)
(* awaited database calls; each awaited call that reads or writes shared   *)
(* state is one atomic step, and steps of concurrent requests interleave.  *)
(***************************************************************************)
EXTENDS Integers, Sequences, FiniteSets, TLC

(* ------------------------------ bounds -------------------------------- *)
\* number of server-action invocations in one behaviour
MaxCalls == 4
\* number of orders that can be created in one behaviour
MaxOrders == 2

(* ----------------------------- universe ------------------------------- *)
Products == {"A", "B"}
Users == {"u1", "u2"}
\* the anonymous cart sessions (the cart-session cookie)
Guests == {"g1"}
\* a cart belongs to a user or to an anonymous session
Identities == Users \cup Guests
\* the identity that checks out; the other one only calls actions on orders
Buyers == {"u1"}
\* the requests the server handles at the same time
Calls == {1, 2}
OrderIds == 1..MaxOrders

\* stock of the two products when the behaviour starts: 5 units of A, 1 unit of B
InitialInventory == [p \in Products |-> IF p = "A" THEN 5 ELSE 1]

\* product.price, in cents
Price == [p \in Products |-> IF p = "A" THEN 2000 ELSE 4000]

\* a cart item row: its id, the product and the quantity
CartLine(id, p, q) == [id |-> id, productId |-> p, quantity |-> q]

\* an item of the checkout form: product, quantity and the price the form carries
FormLine(p, q, price) == [productId |-> p, quantity |-> q, price |-> price]

\* the item a storefront page sends for q units of p: the catalogue price
Line(p, q) == FormLine(p, q, Price[p])

\* the form of a checkout of 3 units of A
ThreeOfA == <<Line("A", 3)>>

\* the items a checkout form may carry (validatedData.items)
CheckoutRequests ==
    { ThreeOfA,
      <<Line("A", 2), Line("B", 1)>>,
      <<Line("A", 2), Line("B", 100)>> }

\* the cart of every identity when the behaviour starts
InitialCart ==
    [i \in Identities |-> IF i \in Buyers THEN <<CartLine(1, "A", 2), CartLine(2, "B", 1)>>
                          ELSE IF i \in Users THEN <<CartLine(3, "A", 1)>>
                          ELSE <<CartLine(4, "A", 2)>>]

\* what a checkout form may carry for the shipping method and the state: a method
\* with a rate and a state with a tax rate, and a method and a state without one
ShippingOptions ==
    { [shippingMethod |-> "express", state |-> "TX"],
      [shippingMethod |-> "free", state |-> "WA"] }

\* quantities an admin may pass to updateProductInventory
AdjustQuantities == {1}
AdjustOperations == {"SET", "ADD", "SUBTRACT"}

OrderStatuses == {"PENDING", "PROCESSING", "SHIPPED", "DELIVERED", "CANCELLED", "REFUNDED"}

NoOrder ==
    [status |-> "NONE", userId |-> "none", items |-> <<>>, stripeSessionId |-> 0,
     subtotal |-> 0, shippingCost |-> 0, tax |-> 0, total |-> 0]

\* a request the middleware has not seen
NoRequest ==
    [pathname |-> <<>>, role |-> "none", callbackUrl |-> <<>>,
     production |-> FALSE, proto |-> "https"]

IdleCall ==
    [op |-> "idle", pc |-> "idle", user |-> "none",
     order |-> 0, session |-> 0, items |-> <<>>, idx |-> 0,
     product |-> "none", qty |-> 0, mode |-> "none",
     seen |-> "NONE", read |-> 0, result |-> "none",
     method |-> "none", region |-> "none", cartTotal |-> 0, guest |-> "none",
     row |-> 0, email |-> "none", request |-> NoRequest, response |-> "none",
     stock |-> [p \in Products |-> -1]]

\* the data cache holds no entry for getInventory
NoEntry == [p \in Products |-> -1]

VARIABLES
    inventory,    \* product.inventory, per product
    isActive,     \* product.isActive, per product
    orders,       \* the order table: order id -> order row (NoOrder when absent)
    nextOrderId,  \* id the next created order gets
    sessions,     \* Stripe checkout sessions, in creation order
    cart,         \* the cart item rows of each identity's cart, in creation order
    carts,        \* the identities that have a cart row
    nextItemId,   \* id the next created cart item row gets
    calls,        \* the requests being handled and their local state
    started,      \* number of server-action invocations so far
    inventoryCache \* the cached result of getInventory (tag 'inventory'), NoEntry if none

vars ==
    <<inventory, isActive, orders, nextOrderId, sessions, cart, carts, nextItemId, calls, started,
      inventoryCache>>

Init ==
    /\ inventory = InitialInventory
    /\ isActive = [p \in Products |-> TRUE]
    /\ orders = [o \in OrderIds |-> NoOrder]
    /\ nextOrderId = 1
    /\ sessions = <<>>
    /\ cart = InitialCart
    /\ carts = Identities
    /\ nextItemId = 5
    /\ calls = [c \in Calls |-> IdleCall]
    /\ started = 0
    /\ inventoryCache = NoEntry

(* ----------------------------- helpers -------------------------------- *)
Exists(o) == o \in OrderIds /\ orders[o].status # "NONE"

InFlight(c) == calls[c].pc \notin {"idle", "done"}

\* a request is taken by the lowest free slot; a slot that has returned keeps the
\* returned value until the next request takes it
CanStart(c) ==
    /\ ~InFlight(c)
    /\ \A d \in Calls : d < c => InFlight(d)
    /\ started < MaxCalls

\* the value a request returned, with what it was about (order, session, items)
\* and the order status it had read
Finish(c, res) ==
    [IdleCall EXCEPT !.op = calls[c].op, !.pc = "done", !.result = res,
                     !.order = calls[c].order, !.session = calls[c].session,
                     !.items = calls[c].items, !.seen = calls[c].seen]

(* --------------------------- createCheckout --------------------------- *)
\* a check that only refuses a product that is out of stock
InsufficientOnlyWhenEmpty(stock, quantity) == stock <= 0

\* product.inventory < item.quantity
InsufficientInventory(stock, quantity) == stock < quantity

RECURSIVE CartTotal(_)
\* getCart: the sum over the cart item rows of product.price * quantity
CartTotal(lines) ==
    IF lines = <<>> THEN 0
    ELSE Price[Head(lines).productId] * Head(lines).quantity + CartTotal(Tail(lines))

\* orders of this value or more ship free
FreeShippingThreshold == 7500

\* shippingRates, in cents
ShippingRates == [standard |-> 599, express |-> 1299, overnight |-> 2499, free |-> 0]

\* calculateShippingCost: shippingRates[method] || 5.99 below the threshold (a rate
\* of 0 is falsy, so the method 'free' costs the default rate as an unknown one does)
calculateShippingCost(method, orderValue) ==
    IF orderValue >= FreeShippingThreshold THEN 0
    ELSE IF method \in DOMAIN ShippingRates /\ ShippingRates[method] # 0
         THEN ShippingRates[method]
         ELSE 599

\* taxRates, per thousand
TaxRates == [CA |-> 80, NY |-> 80, TX |-> 65, FL |-> 60]

\* calculateTax: subtotal * (taxRates[state] || 0)
calculateTax(subtotal, state) ==
    (subtotal * (IF state \in DOMAIN TaxRates THEN TaxRates[state] ELSE 0)) \div 1000

\* a total that leaves the tax out
OrderTotalWithoutTax(subtotal, shippingCost, tax) == subtotal + shippingCost

\* total = subtotal + shippingCost + tax
OrderTotal(subtotal, shippingCost, tax) == subtotal + shippingCost + tax

\* a cart check that lets every cart through
CartIsNeverEmpty(u) == FALSE

\* cart.items.length === 0
CartIsEmpty(u) == Len(cart[u]) = 0

\* !product || !product.isActive
ProductUnavailable(p) == p \notin Products \/ ~isActive[p]

\* parse the form, getCurrentUser, getCart (the cart item rows and their total);
\* reject an empty cart
CheckoutStart(c, u, items, method, region) ==
    /\ CanStart(c)
    /\ started' = started + 1
    /\ LET call == [IdleCall EXCEPT !.op = "createCheckout", !.user = u, !.items = items] IN
       calls' = [calls EXCEPT ![c] =
          IF CartIsEmpty(u)
          THEN [call EXCEPT !.pc = "done", !.result = "Cart is empty"]
          ELSE [call EXCEPT !.pc = "check", !.idx = 1, !.method = method,
                            !.region = region, !.cartTotal = CartTotal(cart[u])]]
    /\ UNCHANGED <<inventoryCache, nextItemId, isActive, carts, inventory, orders, nextOrderId, sessions, cart>>

\* one iteration of the inventory check loop: prisma.product.findUnique
CheckoutCheckLine(c) ==
    /\ calls[c].op = "createCheckout" /\ calls[c].pc = "check"
    /\ LET item == calls[c].items[calls[c].idx] IN
       calls' = [calls EXCEPT ![c] =
          IF ProductUnavailable(item.productId)
          THEN Finish(c, "One or more products are unavailable")
          ELSE IF InsufficientInventory(inventory[item.productId], item.quantity)
          THEN Finish(c, "Insufficient inventory")
          ELSE [calls[c] EXCEPT !.idx = @ + 1,
                                !.pc = IF calls[c].idx = Len(calls[c].items)
                                       THEN "create" ELSE "check"]]
    /\ UNCHANGED <<inventoryCache, nextItemId, isActive, carts, inventory, orders, nextOrderId, sessions, cart, started>>

\* calculateShippingCost, calculateTax, then prisma.order.create: the PENDING order
\* with the items of the form and the amounts computed from the cart
CheckoutCreateOrder(c) ==
    /\ calls[c].op = "createCheckout" /\ calls[c].pc = "create"
    /\ nextOrderId <= MaxOrders
    /\ LET subtotal == calls[c].cartTotal
           shippingCost == calculateShippingCost(calls[c].method, calls[c].cartTotal)
           tax == calculateTax(subtotal, calls[c].region) IN
       orders' = [orders EXCEPT ![nextOrderId] =
          [status |-> "PENDING", userId |-> calls[c].user,
           items |-> calls[c].items, stripeSessionId |-> 0,
           subtotal |-> subtotal, shippingCost |-> shippingCost, tax |-> tax,
           total |-> OrderTotal(subtotal, shippingCost, tax)]]
    /\ nextOrderId' = nextOrderId + 1
    /\ calls' = [calls EXCEPT ![c] = [@ EXCEPT !.pc = "session", !.order = nextOrderId]]
    /\ UNCHANGED <<inventoryCache, nextItemId, isActive, carts, inventory, sessions, cart, started>>

\* createCheckoutSession succeeds: Stripe holds a new unpaid session for the order
CheckoutCreateSession(c) ==
    /\ calls[c].op = "createCheckout" /\ calls[c].pc = "session"
    /\ sessions' = Append(sessions, [orderId |-> calls[c].order, paid |-> FALSE,
                                          expired |-> FALSE])
    /\ calls' = [calls EXCEPT ![c] = [@ EXCEPT !.pc = "store", !.session = Len(sessions) + 1]]
    /\ UNCHANGED <<inventoryCache, nextItemId, isActive, carts, inventory, orders, nextOrderId, cart, started>>

\* createCheckoutSession throws: the catch block returns the failure
CheckoutSessionFails(c) ==
    /\ calls[c].op = "createCheckout" /\ calls[c].pc = "session"
    /\ calls' = [calls EXCEPT ![c] = Finish(c, "Failed to create checkout session")]
    /\ UNCHANGED <<inventoryCache, nextItemId, isActive, carts, inventory, orders, nextOrderId, sessions, cart, started>>

\* prisma.order.update stripeSessionId; throws when the order row is gone
CheckoutStoreSession(c) ==
    /\ calls[c].op = "createCheckout" /\ calls[c].pc = "store"
    /\ IF Exists(calls[c].order)
       THEN /\ orders' = [orders EXCEPT ![calls[c].order].stripeSessionId = calls[c].session]
            /\ calls' = [calls EXCEPT ![c] = Finish(c, "ok")]
       ELSE /\ orders' = orders
            /\ calls' = [calls EXCEPT ![c] = Finish(c, "Failed to create checkout session")]
    /\ UNCHANGED <<inventoryCache, nextItemId, isActive, carts, inventory, nextOrderId, sessions, cart, started>>

(* ------------------- POST /api/stripe/create-checkout ------------------ *)
RECURSIVE CartItems(_)
\* the cart item rows with their product: what the route orders and charges
CartItems(lines) ==
    IF lines = <<>> THEN <<>>
    ELSE <<FormLine(Head(lines).productId, Head(lines).quantity,
                    Price[Head(lines).productId])>> \o CartItems(Tail(lines))

\* subtotal >= 10000 ? 0 : 1500, on the stored prices (the amounts of the model are
\* hundredths of the stored ones)
RouteShippingCost(subtotal) == IF subtotal >= 1000000 THEN 0 ELSE 150000

\* Math.round(subtotal * 0.08), on the stored prices
RouteTax(subtotal) == 100 * ((subtotal * 8 + 5000) \div 10000)

\* getServerSession, checkoutSchema.parse, getCartItems; reject an empty cart
RouteStart(c, u) ==
    /\ CanStart(c)
    /\ started' = started + 1
    /\ LET call == [IdleCall EXCEPT !.op = "POST", !.user = u] IN
       calls' = [calls EXCEPT ![c] =
          IF CartIsEmpty(u)
          THEN [call EXCEPT !.pc = "done", !.result = "Cart is empty"]
          ELSE [call EXCEPT !.pc = "session", !.items = CartItems(cart[u]),
                            !.cartTotal = CartTotal(cart[u])]]
    /\ UNCHANGED <<inventoryCache, nextItemId, isActive, carts, inventory, orders, nextOrderId, sessions, cart>>

\* stripe.checkout.sessions.create: the metadata carries the user and the items of
\* the request, and no order id
RouteCreateSession(c) ==
    /\ calls[c].op = "POST" /\ calls[c].pc = "session"
    /\ sessions' = Append(sessions, [orderId |-> 0, paid |-> FALSE, expired |-> FALSE])
    /\ calls' = [calls EXCEPT ![c] = [@ EXCEPT !.pc = "create", !.session = Len(sessions) + 1]]
    /\ UNCHANGED <<inventoryCache, nextItemId, isActive, carts, inventory, orders, nextOrderId, cart, started>>

\* stripe.checkout.sessions.create throws: the catch block answers 500
RouteSessionFails(c) ==
    /\ calls[c].op = "POST" /\ calls[c].pc = "session"
    /\ calls' = [calls EXCEPT ![c] = Finish(c, "Internal server error")]
    /\ UNCHANGED <<inventoryCache, nextItemId, isActive, carts, inventory, orders, nextOrderId, sessions, cart, started>>

\* createOrder: the PENDING order with the cart items, the amounts the route
\* computed and the session id
RouteCreateOrder(c) ==
    /\ calls[c].op = "POST" /\ calls[c].pc = "create"
    /\ nextOrderId <= MaxOrders
    /\ LET subtotal == calls[c].cartTotal
           shippingCost == RouteShippingCost(subtotal)
           tax == RouteTax(subtotal) IN
       orders' = [orders EXCEPT ![nextOrderId] =
          [status |-> "PENDING", userId |-> calls[c].user,
           items |-> calls[c].items, stripeSessionId |-> calls[c].session,
           subtotal |-> subtotal, shippingCost |-> shippingCost, tax |-> tax,
           total |-> OrderTotal(subtotal, shippingCost, tax)]]
    /\ nextOrderId' = nextOrderId + 1
    /\ calls' = [calls EXCEPT ![c] = [Finish(c, "ok") EXCEPT !.order = nextOrderId]]
    /\ UNCHANGED <<inventoryCache, nextItemId, isActive, carts, inventory, sessions, cart, started>>

(* ------------------------------ clearCart ------------------------------ *)
\* getCartSession (upserts the cart of the identity) and cartItem.deleteMany
ClearCart(c, i) ==
    /\ CanStart(c)
    /\ started' = started + 1
    /\ cart' = [cart EXCEPT ![i] = <<>>]
    /\ carts' = carts \cup {i}
    /\ calls' = [calls EXCEPT ![c] =
          [IdleCall EXCEPT !.op = "clearCart", !.user = i, !.pc = "done", !.result = "ok"]]
    /\ UNCHANGED <<inventoryCache, nextItemId, isActive, inventory, orders, nextOrderId, sessions>>

(* ------------------------------ addToCart ------------------------------ *)
\* the rows of a cart that are of product p
RowsOf(rows, p) == SelectSeq(rows, LAMBDA r : r.productId = p)

\* the rows of a cart that have the id
RowsWithId(rows, id) == SelectSeq(rows, LAMBDA r : r.id = id)

\* prisma.cartItem.update where id: the quantity of the row with the id
SetQuantity(rows, id, q) ==
    [k \in 1..Len(rows) |-> IF rows[k].id = id THEN [rows[k] EXCEPT !.quantity = q]
                            ELSE rows[k]]

\* validatedData, then prisma.product.findUnique: the product must exist, be active
\* and have the quantity in stock
AddStart(c, i, p, q) ==
    /\ CanStart(c)
    /\ started' = started + 1
    /\ LET call == [IdleCall EXCEPT !.op = "addToCart", !.user = i, !.product = p, !.qty = q] IN
       calls' = [calls EXCEPT ![c] =
          IF ProductUnavailable(p)
          THEN [call EXCEPT !.pc = "done", !.result = "Product not found or unavailable"]
          ELSE IF InsufficientInventory(inventory[p], q)
          THEN [call EXCEPT !.pc = "done", !.result = "Insufficient inventory"]
          ELSE [call EXCEPT !.pc = "find", !.read = inventory[p]]]
    /\ UNCHANGED <<inventoryCache, nextItemId, isActive, carts, inventory, orders, nextOrderId, sessions, cart>>

\* getCartSession (upserts the cart of the identity), then prisma.cartItem.findFirst:
\* the row of the product, if the cart has one
AddFind(c) ==
    /\ calls[c].op = "addToCart" /\ calls[c].pc = "find"
    /\ carts' = carts \cup {calls[c].user}
    /\ LET found == RowsOf(cart[calls[c].user], calls[c].product) IN
       calls' = [calls EXCEPT ![c] =
          IF found = <<>> THEN [@ EXCEPT !.pc = "create"]
          ELSE IF found[1].quantity + calls[c].qty > calls[c].read
          THEN Finish(c, "Cannot add more items than available in inventory")
          ELSE [@ EXCEPT !.pc = "update", !.row = found[1].id,
                         !.qty = found[1].quantity + calls[c].qty]]
    /\ UNCHANGED <<inventoryCache, nextItemId, isActive, inventory, orders, nextOrderId, sessions, cart, started>>

\* prisma.cartItem.update: the row found gets the new quantity; throws when the
\* row is gone
AddUpdate(c) ==
    /\ calls[c].op = "addToCart" /\ calls[c].pc = "update"
    /\ IF RowsWithId(cart[calls[c].user], calls[c].row) # <<>>
       THEN /\ cart' = [cart EXCEPT ![calls[c].user] = SetQuantity(@, calls[c].row, calls[c].qty)]
            /\ calls' = [calls EXCEPT ![c] = Finish(c, "ok")]
       ELSE /\ cart' = cart
            /\ calls' = [calls EXCEPT ![c] = Finish(c, "Failed to add item to cart")]
    /\ UNCHANGED <<inventoryCache, nextItemId, isActive, carts, inventory, orders, nextOrderId, sessions, started>>

\* prisma.cartItem.create: a new row for the product; throws when the cart is gone
AddCreate(c) ==
    /\ calls[c].op = "addToCart" /\ calls[c].pc = "create"
    /\ IF calls[c].user \in carts
       THEN /\ cart' = [cart EXCEPT ![calls[c].user] =
                          Append(@, CartLine(nextItemId, calls[c].product, calls[c].qty))]
            /\ nextItemId' = nextItemId + 1
            /\ calls' = [calls EXCEPT ![c] = Finish(c, "ok")]
       ELSE /\ cart' = cart
            /\ nextItemId' = nextItemId
            /\ calls' = [calls EXCEPT ![c] = Finish(c, "Failed to add item to cart")]
    /\ UNCHANGED <<inventoryCache, isActive, carts, inventory, orders, nextOrderId, sessions, started>>

(* ---------------------------- updateCartItem --------------------------- *)
\* updateCartItemSchema, getCartSession, prisma.cartItem.findFirst with the product's
\* stock: quantity 0 deletes the row, any other must be in stock
UpdateItemStart(c, i, id, q) ==
    /\ CanStart(c)
    /\ started' = started + 1
    /\ carts' = carts \cup {i}
    /\ LET call == [IdleCall EXCEPT !.op = "updateCartItem", !.user = i, !.row = id, !.qty = q]
           found == RowsWithId(cart[i], id) IN
       calls' = [calls EXCEPT ![c] =
          IF found = <<>>
          THEN [call EXCEPT !.pc = "done", !.result = "Cart item not found"]
          ELSE IF q = 0 THEN [call EXCEPT !.pc = "delete"]
          ELSE IF q > inventory[found[1].productId]
          THEN [call EXCEPT !.pc = "done", !.result = "Quantity exceeds available inventory"]
          ELSE [call EXCEPT !.pc = "update"]]
    /\ UNCHANGED <<inventoryCache, nextItemId, isActive, inventory, orders, nextOrderId, sessions, cart>>

\* prisma.cartItem.delete or prisma.cartItem.update where id; throws when the row
\* is gone
UpdateItemWrite(c) ==
    /\ calls[c].op = "updateCartItem" /\ calls[c].pc \in {"delete", "update"}
    /\ IF RowsWithId(cart[calls[c].user], calls[c].row) # <<>>
       THEN /\ cart' = [cart EXCEPT ![calls[c].user] =
                          IF calls[c].pc = "delete"
                          THEN SelectSeq(@, LAMBDA r : r.id # calls[c].row)
                          ELSE SetQuantity(@, calls[c].row, calls[c].qty)]
            /\ calls' = [calls EXCEPT ![c] = Finish(c, "ok")]
       ELSE /\ cart' = cart
            /\ calls' = [calls EXCEPT ![c] = Finish(c, "Failed to update cart item")]
    /\ UNCHANGED <<inventoryCache, nextItemId, isActive, carts, inventory, orders, nextOrderId, sessions, started>>

(* ---------------------------- removeFromCart --------------------------- *)
\* getCartSession (upserts the cart) and prisma.cartItem.deleteMany of the product
RemoveFromCart(c, i, p) ==
    /\ CanStart(c)
    /\ started' = started + 1
    /\ carts' = carts \cup {i}
    /\ cart' = [cart EXCEPT ![i] = SelectSeq(@, LAMBDA r : r.productId # p)]
    /\ calls' = [calls EXCEPT ![c] =
          [IdleCall EXCEPT !.op = "removeFromCart", !.user = i, !.product = p,
                           !.pc = "done", !.result = "ok"]]
    /\ UNCHANGED <<inventoryCache, nextItemId, isActive, inventory, orders, nextOrderId, sessions>>

(* ---------------------------- mergeGuestCart --------------------------- *)
\* prisma.cart.delete of the guest cart
DeleteGuestCart(existing, guest) == existing \ {guest}

\* getCurrentUser, prisma.cart.findUnique of the guest cart with its rows (nothing
\* to merge when it is missing or empty), prisma.cart.upsert of the user's cart
MergeStart(c, u, g) ==
    /\ CanStart(c)
    /\ started' = started + 1
    /\ carts' = IF g \notin carts \/ cart[g] = <<>> THEN carts ELSE carts \cup {u}
    /\ LET call == [IdleCall EXCEPT !.op = "mergeGuestCart", !.user = u, !.guest = g] IN
       calls' = [calls EXCEPT ![c] =
          IF g \notin carts \/ cart[g] = <<>>
          THEN [call EXCEPT !.pc = "done", !.result = "ok"]
          ELSE [call EXCEPT !.pc = "find", !.items = cart[g], !.idx = 1]]
    /\ UNCHANGED <<inventoryCache, nextItemId, isActive, inventory, orders, nextOrderId, sessions, cart>>

\* one iteration of the merge loop, prisma.cartItem.findFirst: the row of the guest
\* item's product in the user's cart, if there is one
MergeFind(c) ==
    /\ calls[c].op = "mergeGuestCart" /\ calls[c].pc = "find"
    /\ LET item == calls[c].items[calls[c].idx]
           found == RowsOf(cart[calls[c].user], item.productId) IN
       calls' = [calls EXCEPT ![c] =
          IF found = <<>> THEN [@ EXCEPT !.pc = "create"]
          ELSE [@ EXCEPT !.pc = "update", !.row = found[1].id, !.read = found[1].quantity]]
    /\ UNCHANGED <<inventoryCache, nextItemId, isActive, carts, inventory, orders, nextOrderId, sessions, cart, started>>

\* prisma.cartItem.update: existingItem.quantity + item.quantity, or
\* prisma.cartItem.create: the guest item as a new row of the user's cart
MergeWrite(c) ==
    /\ calls[c].op = "mergeGuestCart" /\ calls[c].pc \in {"update", "create"}
    /\ LET item == calls[c].items[calls[c].idx]
           next == [calls[c] EXCEPT !.idx = @ + 1, !.row = 0, !.read = 0,
                                    !.pc = IF calls[c].idx = Len(calls[c].items)
                                           THEN "delete" ELSE "find"] IN
       IF calls[c].pc = "create"
       THEN /\ cart' = [cart EXCEPT ![calls[c].user] =
                          Append(@, CartLine(nextItemId, item.productId, item.quantity))]
            /\ nextItemId' = nextItemId + 1
            /\ calls' = [calls EXCEPT ![c] = next]
       ELSE IF RowsWithId(cart[calls[c].user], calls[c].row) # <<>>
       THEN /\ cart' = [cart EXCEPT ![calls[c].user] =
                          SetQuantity(@, calls[c].row, calls[c].read + item.quantity)]
            /\ nextItemId' = nextItemId
            /\ calls' = [calls EXCEPT ![c] = next]
       ELSE /\ cart' = cart
            /\ nextItemId' = nextItemId
            /\ calls' = [calls EXCEPT ![c] = Finish(c, "Failed to merge guest cart")]
    /\ UNCHANGED <<inventoryCache, isActive, carts, inventory, orders, nextOrderId, sessions, started>>

\* prisma.cart.delete of the guest cart, with its rows; throws when it is gone
MergeDelete(c) ==
    /\ calls[c].op = "mergeGuestCart" /\ calls[c].pc = "delete"
    /\ IF calls[c].guest \in carts
       THEN /\ carts' = DeleteGuestCart(carts, calls[c].guest)
            /\ cart' = [cart EXCEPT ![calls[c].guest] = <<>>]
            /\ calls' = [calls EXCEPT ![c] = [Finish(c, "ok") EXCEPT !.guest = calls[c].guest]]
       ELSE /\ carts' = carts
            /\ cart' = cart
            /\ calls' = [calls EXCEPT ![c] =
                  [Finish(c, "Failed to merge guest cart") EXCEPT !.guest = calls[c].guest]]
    /\ UNCHANGED <<inventoryCache, nextItemId, isActive, inventory, orders, nextOrderId, sessions, started>>

(* -------------------------- toggleProductStatus ------------------------ *)
\* prisma.product.findUnique: the flag as read.  requirePermission(PRODUCT_UPDATE)
\* comes first: the calls modelled are the admin's
ToggleStart(c, p) ==
    /\ CanStart(c)
    /\ started' = started + 1
    /\ calls' = [calls EXCEPT ![c] =
          [IdleCall EXCEPT !.op = "toggleProductStatus", !.product = p, !.pc = "write",
                           !.mode = IF isActive[p] THEN "active" ELSE "inactive"]]
    /\ UNCHANGED <<inventoryCache, nextItemId, isActive, carts, inventory, orders, nextOrderId, sessions, cart>>

\* prisma.product.update: isActive set to the negation of the flag read
ToggleWrite(c) ==
    /\ calls[c].op = "toggleProductStatus" /\ calls[c].pc = "write"
    /\ isActive' = [isActive EXCEPT ![calls[c].product] = (calls[c].mode = "inactive")]
    /\ calls' = [calls EXCEPT ![c] = Finish(c, "ok")]
    /\ UNCHANGED <<inventoryCache, nextItemId, carts, inventory, orders, nextOrderId, sessions, cart, started>>

(* ------------------------ the payment processor ----------------------- *)
\* the customer completes the payment of a session on Stripe's hosted page
CustomerPays(s) ==
    /\ s \in 1..Len(sessions)
    /\ ~sessions[s].paid /\ ~sessions[s].expired
    /\ sessions' = [sessions EXCEPT ![s].paid = TRUE]
    /\ UNCHANGED <<inventoryCache, nextItemId, isActive, carts, inventory, orders, nextOrderId, cart, calls, started>>

\* the payment of a session fails or the session expires unpaid, and Stripe reports
\* it.  The application has no route or action that receives the report: nothing
\* but the session at Stripe changes
SessionExpires(s) ==
    /\ s \in 1..Len(sessions)
    /\ ~sessions[s].paid /\ ~sessions[s].expired
    /\ sessions' = [sessions EXCEPT ![s].expired = TRUE]
    /\ UNCHANGED <<inventoryCache, nextItemId, isActive, carts, inventory, orders, nextOrderId, cart, calls, started>>

(* ---------------------- processSuccessfulPayment ---------------------- *)
\* the status the payment handler writes
PaidStatus == "PROCESSING"

\* inventory: { decrement: item.quantity }
Decrement(stock, quantity) == stock - quantity

\* an increment by one unit instead of the line's quantity
IncrementByOne(stock, quantity) == stock + 1

\* inventory: { increment: item.quantity }
Increment(stock, quantity) == stock + quantity

\* a lookup that takes the first order for a session Stripe does not know
OrderOfAnySession(s) ==
    IF s \in 1..Len(sessions) THEN sessions[s].orderId ELSE 1

\* session.metadata?.orderId of stripe.checkout.sessions.retrieve(sessionId): 0 when
\* the session is unknown (retrieve throws) or carries no order id
OrderOfSession(s) ==
    IF s \in 1..Len(sessions) THEN sessions[s].orderId ELSE 0

\* stripe.checkout.sessions.retrieve, then prisma.order.findUnique with the items.
\* A session never changes its metadata, so the two reads are one step.
PaymentStart(c, u, s) ==
    /\ CanStart(c)
    /\ started' = started + 1
    /\ LET call == [IdleCall EXCEPT !.op = "processSuccessfulPayment",
                                    !.user = u, !.session = s] IN
       calls' = [calls EXCEPT ![c] =
          IF ~Exists(OrderOfSession(s))
          THEN [IdleCall EXCEPT !.op = call.op, !.pc = "done", !.result = "Failed to process payment"]
          ELSE [call EXCEPT !.pc = "update", !.order = OrderOfSession(s),
                            !.items = orders[OrderOfSession(s)].items,
                            !.seen = orders[OrderOfSession(s)].status]]
    /\ UNCHANGED <<inventoryCache, nextItemId, isActive, carts, inventory, orders, nextOrderId, sessions, cart>>

\* prisma.order.update: status PROCESSING, paidAt; throws when the row is gone
PaymentUpdateOrder(c) ==
    /\ calls[c].op = "processSuccessfulPayment" /\ calls[c].pc = "update"
    /\ IF Exists(calls[c].order)
       THEN /\ orders' = [orders EXCEPT ![calls[c].order].status = PaidStatus]
            /\ calls' = [calls EXCEPT ![c] = [@ EXCEPT !.pc = "decrement", !.idx = 1]]
       ELSE /\ orders' = orders
            /\ calls' = [calls EXCEPT ![c] = Finish(c, "Failed to process payment")]
    /\ UNCHANGED <<inventoryCache, nextItemId, isActive, carts, inventory, nextOrderId, sessions, cart, started>>

\* one iteration of the inventory loop: prisma.product.update decrement
PaymentDecrement(c) ==
    /\ calls[c].op = "processSuccessfulPayment" /\ calls[c].pc = "decrement"
    /\ LET item == calls[c].items[calls[c].idx] IN
       inventory' = [inventory EXCEPT ![item.productId] = Decrement(@, item.quantity)]
    /\ calls' = [calls EXCEPT ![c] =
          [@ EXCEPT !.idx = @ + 1,
                    !.pc = IF calls[c].idx = Len(calls[c].items) THEN "clear" ELSE "decrement"]]
    /\ UNCHANGED <<inventoryCache, nextItemId, isActive, carts, orders, nextOrderId, sessions, cart, started>>

\* one iteration of the inventory loop whose prisma.product.update throws (the
\* database is unreachable or times out): the catch block returns the failure and
\* nothing written before is undone
PaymentDecrementFails(c) ==
    /\ calls[c].op = "processSuccessfulPayment" /\ calls[c].pc = "decrement"
    /\ calls' = [calls EXCEPT ![c] = Finish(c, "Failed to process payment")]
    /\ UNCHANGED <<inventoryCache, nextItemId, isActive, carts, inventory, orders, nextOrderId, sessions, cart, started>>

\* sendOrderConfirmation: render and resend.emails.send inside try/catch; it returns
\* { success: true } or { success: false, error } and never throws
sendOrderConfirmation(delivered) == IF delivered THEN "sent" ELSE "failed"

\* a caller that turns a notification that was not sent into its own failure
FailUnlessSent(outcome, failure) == IF outcome = "failed" THEN failure ELSE "ok"

\* what the caller returns after `await sendOrderConfirmation(...)`: the value the
\* notification returned is not read, the action goes on to return success
AfterNotification(outcome, failure) == "ok"

\* clearCart() of the calling identity (getCartSession upserts its cart, deleteMany
\* removes the rows), sendOrderConfirmation, revalidateTag, return
PaymentFinish(c, delivered) ==
    /\ calls[c].op = "processSuccessfulPayment" /\ calls[c].pc = "clear"
    /\ cart' = [cart EXCEPT ![calls[c].user] = <<>>]
    /\ carts' = carts \cup {calls[c].user}
    /\ LET outcome == sendOrderConfirmation(delivered) IN
       calls' = [calls EXCEPT ![c] =
          [Finish(c, AfterNotification(outcome, "Failed to process payment"))
              EXCEPT !.email = outcome]]
    /\ UNCHANGED <<inventoryCache, nextItemId, isActive, inventory, orders, nextOrderId, sessions, started>>

\* the same with a notification service that delivers
PaymentClearCart(c) == PaymentFinish(c, TRUE)

(* ----------------------------- cancelOrder ----------------------------- *)
\* a check that lets an order of any status be cancelled
AlwaysCancellable(status) == TRUE

\* ['PENDING', 'PROCESSING'].includes(order.status)
Cancellable(status) == status \in {"PENDING", "PROCESSING"}

\* order.status === 'PROCESSING'
CancelRestocks(status) == status = "PROCESSING"

\* getCurrentUser (u is "none" when nobody is signed in), prisma.order.findUnique
\* with the items, and the four checks
CancelStart(c, u, o) ==
    /\ CanStart(c)
    /\ started' = started + 1
    /\ LET call == [IdleCall EXCEPT !.op = "cancelOrder", !.user = u, !.order = o] IN
       calls' = [calls EXCEPT ![c] =
          IF u = "none"
          THEN [IdleCall EXCEPT !.op = call.op, !.pc = "done", !.result = "Authentication required"]
          ELSE IF ~Exists(o)
          THEN [IdleCall EXCEPT !.op = call.op, !.pc = "done", !.result = "Order not found"]
          ELSE IF orders[o].userId # u
          THEN [IdleCall EXCEPT !.op = call.op, !.pc = "done", !.result = "Unauthorized"]
          ELSE IF ~Cancellable(orders[o].status)
          THEN [IdleCall EXCEPT !.op = call.op, !.pc = "done", !.result = "Order cannot be cancelled"]
          ELSE [call EXCEPT !.items = orders[o].items, !.seen = orders[o].status,
                            !.idx = 1,
                            !.pc = IF CancelRestocks(orders[o].status)
                                   THEN "restock" ELSE "cancel"]]
    /\ UNCHANGED <<inventoryCache, nextItemId, isActive, carts, inventory, orders, nextOrderId, sessions, cart>>

\* one iteration of the restore loop: prisma.product.update increment
CancelRestock(c) ==
    /\ calls[c].op = "cancelOrder" /\ calls[c].pc = "restock"
    /\ LET item == calls[c].items[calls[c].idx] IN
       inventory' = [inventory EXCEPT ![item.productId] = Increment(@, item.quantity)]
    /\ calls' = [calls EXCEPT ![c] =
          [@ EXCEPT !.idx = @ + 1,
                    !.pc = IF calls[c].idx = Len(calls[c].items) THEN "cancel" ELSE "restock"]]
    /\ UNCHANGED <<inventoryCache, nextItemId, isActive, carts, orders, nextOrderId, sessions, cart, started>>

\* prisma.order.update: status CANCELLED, cancelledAt; throws when the row is gone
CancelUpdateOrder(c) ==
    /\ calls[c].op = "cancelOrder" /\ calls[c].pc = "cancel"
    /\ IF Exists(calls[c].order)
       THEN /\ orders' = [orders EXCEPT ![calls[c].order].status = "CANCELLED"]
            /\ calls' = [calls EXCEPT ![c] = Finish(c, "ok")]
       ELSE /\ orders' = orders
            /\ calls' = [calls EXCEPT ![c] = Finish(c, "Failed to cancel order")]
    /\ UNCHANGED <<inventoryCache, nextItemId, isActive, carts, inventory, nextOrderId, sessions, cart, started>>

(* ----------------------------- deleteOrder ----------------------------- *)
\* ['PROCESSING', 'SHIPPED', 'DELIVERED'].includes(order.status)
DeleteRestocks(status) == status \in {"PROCESSING", "SHIPPED", "DELIVERED"}

\* prisma.order.findUnique with the items.  requireAdmin comes first: a caller
\* without the role is redirected before any database call, so the calls modelled
\* are the admin's
DeleteStart(c, o) ==
    /\ CanStart(c)
    /\ started' = started + 1
    /\ LET call == [IdleCall EXCEPT !.op = "deleteOrder", !.order = o] IN
       calls' = [calls EXCEPT ![c] =
          IF ~Exists(o)
          THEN [IdleCall EXCEPT !.op = call.op, !.pc = "done", !.result = "Order not found"]
          ELSE [call EXCEPT !.items = orders[o].items, !.seen = orders[o].status,
                            !.idx = 1,
                            !.pc = IF DeleteRestocks(orders[o].status)
                                   THEN "restock" ELSE "delete"]]
    /\ UNCHANGED <<inventoryCache, nextItemId, isActive, carts, inventory, orders, nextOrderId, sessions, cart>>

\* one iteration of the restore loop: prisma.product.update increment
DeleteRestock(c) ==
    /\ calls[c].op = "deleteOrder" /\ calls[c].pc = "restock"
    /\ LET item == calls[c].items[calls[c].idx] IN
       inventory' = [inventory EXCEPT ![item.productId] = Increment(@, item.quantity)]
    /\ calls' = [calls EXCEPT ![c] =
          [@ EXCEPT !.idx = @ + 1,
                    !.pc = IF calls[c].idx = Len(calls[c].items) THEN "delete" ELSE "restock"]]
    /\ UNCHANGED <<inventoryCache, nextItemId, isActive, carts, orders, nextOrderId, sessions, cart, started>>

\* prisma.order.delete; throws when the row is gone
DeleteRow(c) ==
    /\ calls[c].op = "deleteOrder" /\ calls[c].pc = "delete"
    /\ IF Exists(calls[c].order)
       THEN /\ orders' = [orders EXCEPT ![calls[c].order] = NoOrder]
            /\ calls' = [calls EXCEPT ![c] = Finish(c, "ok")]
       ELSE /\ orders' = orders
            /\ calls' = [calls EXCEPT ![c] = Finish(c, "Failed to delete order")]
    /\ UNCHANGED <<inventoryCache, nextItemId, isActive, carts, inventory, nextOrderId, sessions, cart, started>>

(* -------------------------- updateOrderStatus -------------------------- *)
\* updateOrderStatusSchema.parse: any value of the status enum is accepted
StatusAccepted(from, to) == to \in OrderStatuses

\* ['SHIPPED', 'DELIVERED'].includes(validatedData.status)
Notifies(status) == status \in {"SHIPPED", "DELIVERED"}

\* the schema, prisma.order.update (throws when the row is gone), the notification
\* for SHIPPED and DELIVERED, return.
\* requirePermission(ORDER_UPDATE) comes first: the calls modelled are the admin's
UpdateOrderStatusNotify(c, o, status, delivered) ==
    /\ CanStart(c)
    /\ started' = started + 1
    /\ LET call == [IdleCall EXCEPT !.op = "updateOrderStatus",
                                    !.order = o, !.pc = "done"]
           outcome == IF Notifies(status) THEN sendOrderConfirmation(delivered) ELSE "none" IN
       IF Exists(o) /\ StatusAccepted(orders[o].status, status)
       THEN /\ orders' = [orders EXCEPT ![o].status = status]
            /\ calls' = [calls EXCEPT ![c] =
                  [call EXCEPT !.email = outcome,
                               !.result = AfterNotification(outcome, "Failed to update order status")]]
       ELSE /\ orders' = orders
            /\ calls' = [calls EXCEPT ![c] =
                  [call EXCEPT !.result = "Failed to update order status"]]
    /\ UNCHANGED <<inventoryCache, nextItemId, isActive, carts, inventory, nextOrderId, sessions, cart>>

\* the same with a notification service that delivers
UpdateOrderStatus(c, o, status) == UpdateOrderStatusNotify(c, o, status, TRUE)

(* ----------------------- updateProductInventory ------------------------ *)
\* newQuantity, computed from the stock read before
NewQuantity(read, quantity, operation) ==
    IF operation = "ADD" THEN read + quantity
    ELSE IF operation = "SUBTRACT" THEN (IF read - quantity > 0 THEN read - quantity ELSE 0)
    ELSE quantity

\* prisma.product.findUnique.  requirePermission(PRODUCT_UPDATE) comes first: the
\* calls modelled are the admin's
AdjustStart(c, p, q, operation) ==
    /\ CanStart(c)
    /\ started' = started + 1
    /\ LET call == [IdleCall EXCEPT !.op = "updateProductInventory",
                                    !.product = p, !.qty = q, !.mode = operation] IN
       calls' = [calls EXCEPT ![c] = [call EXCEPT !.pc = "write", !.read = inventory[p]]]
    /\ UNCHANGED <<inventoryCache, nextItemId, isActive, carts, inventory, orders, nextOrderId, sessions, cart>>

\* revalidateTag(tag) on the entry of getInventory, which carries the tag
\* 'inventory' alone: the entry is dropped for that tag and kept for any other
Revalidate(tag, entry) == IF tag = "inventory" THEN NoEntry ELSE entry

\* prisma.product.update: inventory set to newQuantity; revalidateTag('products'),
\* revalidateTag('inventory')
AdjustWrite(c) ==
    /\ calls[c].op = "updateProductInventory" /\ calls[c].pc = "write"
    /\ inventory' = [inventory EXCEPT ![calls[c].product] =
                        NewQuantity(calls[c].read, calls[c].qty, calls[c].mode)]
    /\ calls' = [calls EXCEPT ![c] =
          [Finish(c, "ok") EXCEPT !.product = calls[c].product, !.qty = calls[c].qty,
                                  !.mode = calls[c].mode]]
    /\ inventoryCache' = Revalidate("inventory", inventoryCache)
    /\ UNCHANGED <<nextItemId, isActive, carts, orders, nextOrderId, sessions, cart, started>>

Next ==
    \/ \E c \in Calls, u \in Buyers, items \in CheckoutRequests :
          CheckoutStart(c, u, items, "standard", "CA")
    \/ \E c \in Calls : CheckoutCheckLine(c)
    \/ \E c \in Calls : CheckoutCreateOrder(c)
    \/ \E c \in Calls : CheckoutCreateSession(c)
    \/ \E c \in Calls : CheckoutSessionFails(c)
    \/ \E c \in Calls : CheckoutStoreSession(c)
    \/ \E s \in 1..MaxOrders : CustomerPays(s)
    \/ \E c \in Calls, u \in Users, s \in 1..MaxOrders : PaymentStart(c, u, s)
    \/ \E c \in Calls : PaymentUpdateOrder(c)
    \/ \E c \in Calls : PaymentDecrement(c)
    \/ \E c \in Calls : PaymentClearCart(c)
    \/ \E c \in Calls, u \in Users, o \in OrderIds : CancelStart(c, u, o)
    \/ \E c \in Calls : CancelRestock(c)
    \/ \E c \in Calls : CancelUpdateOrder(c)
    \/ \E c \in Calls, o \in OrderIds : DeleteStart(c, o)
    \/ \E c \in Calls : DeleteRestock(c)
    \/ \E c \in Calls : DeleteRow(c)
    \/ \E c \in Calls, o \in OrderIds, status \in OrderStatuses :
          UpdateOrderStatus(c, o, status)
    \/ \E c \in Calls, p \in Products, q \in AdjustQuantities,
          operation \in AdjustOperations : AdjustStart(c, p, q, operation)
    \/ \E c \in Calls : AdjustWrite(c)

Spec == Init /\ [][Next]_vars

\* the server actions a customer reaches from the storefront, without the admin's
NextStorefront ==
    \/ \E c \in Calls, u \in Buyers, items \in CheckoutRequests :
          CheckoutStart(c, u, items, "standard", "CA")
    \/ \E c \in Calls : CheckoutCheckLine(c)
    \/ \E c \in Calls : CheckoutCreateOrder(c)
    \/ \E c \in Calls : CheckoutCreateSession(c)
    \/ \E c \in Calls : CheckoutSessionFails(c)
    \/ \E c \in Calls : CheckoutStoreSession(c)
    \/ \E s \in 1..MaxOrders : CustomerPays(s)
    \/ \E c \in Calls, u \in Users, s \in 1..MaxOrders : PaymentStart(c, u, s)
    \/ \E c \in Calls : PaymentUpdateOrder(c)
    \/ \E c \in Calls : PaymentDecrement(c)
    \/ \E c \in Calls : PaymentClearCart(c)
    \/ \E c \in Calls, u \in Users, o \in OrderIds : CancelStart(c, u, o)
    \/ \E c \in Calls : CancelRestock(c)
    \/ \E c \in Calls : CancelUpdateOrder(c)

SpecStorefront == Init /\ [][NextStorefront]_vars

\* what a checkout form may carry as items: the storefront's, and one that names a
\* product the catalogue does not have
CheckoutForms == CheckoutRequests \cup { <<FormLine("Z", 1, 0)>> }

\* the two checkout entry points, with the cart emptied and products taken off sale
\* and put back in between
NextCheckout ==
    \/ \E c \in Calls, u \in Buyers, items \in CheckoutForms :
          CheckoutStart(c, u, items, "standard", "CA")
    \/ \E c \in Calls : CheckoutCheckLine(c)
    \/ \E c \in Calls : CheckoutCreateOrder(c)
    \/ \E c \in Calls : CheckoutCreateSession(c)
    \/ \E c \in Calls : CheckoutSessionFails(c)
    \/ \E c \in Calls : CheckoutStoreSession(c)
    \/ \E c \in Calls, u \in Buyers : RouteStart(c, u)
    \/ \E c \in Calls : RouteCreateSession(c)
    \/ \E c \in Calls : RouteSessionFails(c)
    \/ \E c \in Calls : RouteCreateOrder(c)
    \/ \E c \in Calls, i \in Buyers : ClearCart(c, i)
    \/ \E c \in Calls, p \in Products : ToggleStart(c, p)
    \/ \E c \in Calls : ToggleWrite(c)

SpecCheckout == Init /\ [][NextCheckout]_vars

\* the two checkout entry points, for both users' carts and the shipping options,
\* with a form that differs from the cart, and a later status change of the orders
NextTotals ==
    \/ \E c \in Calls, u \in Users, opt \in ShippingOptions :
          CheckoutStart(c, u, ThreeOfA, opt.shippingMethod, opt.state)
    \/ \E c \in Calls : CheckoutCheckLine(c)
    \/ \E c \in Calls : CheckoutCreateOrder(c)
    \/ \E c \in Calls : CheckoutCreateSession(c)
    \/ \E c \in Calls : CheckoutSessionFails(c)
    \/ \E c \in Calls : CheckoutStoreSession(c)
    \/ \E c \in Calls, u \in Users : RouteStart(c, u)
    \/ \E c \in Calls : RouteCreateSession(c)
    \/ \E c \in Calls : RouteSessionFails(c)
    \/ \E c \in Calls : RouteCreateOrder(c)
    \/ \E c \in Calls, o \in OrderIds : UpdateOrderStatus(c, o, "CANCELLED")

SpecTotals == Init /\ [][NextTotals]_vars

\* the stock of A the cart operations may find: plenty, or less than two carts hold
MergeStocks == {10, 2}

\* the state of Init, with one of the stocks of A
InitCart ==
    /\ inventory \in {[InitialInventory EXCEPT !["A"] = n] : n \in MergeStocks}
    /\ isActive = [p \in Products |-> TRUE]
    /\ orders = [o \in OrderIds |-> NoOrder]
    /\ nextOrderId = 1
    /\ sessions = <<>>
    /\ cart = InitialCart
    /\ carts = Identities
    /\ nextItemId = 5
    /\ calls = [c \in Calls |-> IdleCall]
    /\ started = 0
    /\ inventoryCache = NoEntry

\* the carts the cart operations are called on: a user's and a guest's
Shoppers == {"u2", "g1"}

\* the cart operations of a user and of a guest, and the merge of the guest's cart
\* into the user's
NextCart ==
    \/ \E c \in Calls, i \in Shoppers, p \in Products : AddStart(c, i, p, 1)
    \/ \E c \in Calls : AddFind(c)
    \/ \E c \in Calls : AddUpdate(c)
    \/ \E c \in Calls : AddCreate(c)
    \/ \E c \in Calls, i \in Shoppers, id \in {3, 4}, q \in {0, 2} :
          UpdateItemStart(c, i, id, q)
    \/ \E c \in Calls : UpdateItemWrite(c)
    \/ \E c \in Calls, i \in Shoppers, p \in Products : RemoveFromCart(c, i, p)
    \/ \E c \in Calls, i \in Shoppers : ClearCart(c, i)
    \/ \E c \in Calls : MergeStart(c, "u2", "g1")
    \/ \E c \in Calls : MergeFind(c)
    \/ \E c \in Calls : MergeWrite(c)
    \/ \E c \in Calls : MergeDelete(c)

SpecCart == InitCart /\ [][NextCart]_vars

(* the checkout of one buyer, the processor's reports, payment and cancellation *)
\* a step of request c, once started: the server runs every request to its return
RequestStep(c) ==
    \/ CheckoutCheckLine(c)
    \/ CheckoutCreateOrder(c)
    \/ CheckoutCreateSession(c)
    \/ CheckoutStoreSession(c)
    \/ PaymentUpdateOrder(c)
    \/ PaymentDecrement(c)
    \/ PaymentClearCart(c)
    \/ CancelRestock(c)
    \/ CancelUpdateOrder(c)

NextPayments ==
    \/ \E c \in Calls, u \in Buyers : CheckoutStart(c, u, ThreeOfA, "standard", "CA")
    \/ \E c \in Calls : RequestStep(c)
    \/ \E c \in Calls : CheckoutSessionFails(c)
    \/ \E s \in 1..MaxOrders : CustomerPays(s)
    \/ \E s \in 1..MaxOrders : SessionExpires(s)
    \/ \E c \in Calls, u \in Buyers, s \in 1..MaxOrders : PaymentStart(c, u, s)
    \/ \E c \in Calls, u \in Buyers, o \in OrderIds : CancelStart(c, u, o)

SpecPayments == Init /\ [][NextPayments]_vars

\* the same system with the server's scheduling: a request in flight is not
\* suspended for ever.  Customers, the processor and new requests are not forced.
FairPayments == SpecPayments /\ \A c \in Calls : WF_vars(RequestStep(c))

(* payment-success processing of the sessions of both checkout entry points *)
NextSettlement ==
    \/ \E c \in Calls, u \in Buyers : CheckoutStart(c, u, ThreeOfA, "standard", "CA")
    \/ \E c \in Calls : CheckoutCheckLine(c)
    \/ \E c \in Calls : CheckoutCreateOrder(c)
    \/ \E c \in Calls : CheckoutCreateSession(c)
    \/ \E c \in Calls : CheckoutSessionFails(c)
    \/ \E c \in Calls : CheckoutStoreSession(c)
    \/ \E c \in Calls, u \in Buyers : RouteStart(c, u)
    \/ \E c \in Calls : RouteCreateSession(c)
    \/ \E c \in Calls : RouteSessionFails(c)
    \/ \E c \in Calls : RouteCreateOrder(c)
    \/ \E s \in 1..MaxOrders : CustomerPays(s)
    \/ \E c \in Calls, u \in Buyers, s \in 1..MaxOrders : PaymentStart(c, u, s)
    \/ \E c \in Calls : PaymentUpdateOrder(c)
    \/ \E c \in Calls : PaymentDecrement(c)
    \/ \E c \in Calls : PaymentClearCart(c)

SpecSettlement == Init /\ [][NextSettlement]_vars

(* payment-success processing with database calls that may throw *)
\* the forms of the buyer: one line, and two lines
SettlementForms == {ThreeOfA, <<Line("A", 2), Line("B", 1)>>}

NextUnitOfWork ==
    \/ \E c \in Calls, u \in Buyers, items \in SettlementForms :
          CheckoutStart(c, u, items, "standard", "CA")
    \/ \E c \in Calls : CheckoutCheckLine(c)
    \/ \E c \in Calls : CheckoutCreateOrder(c)
    \/ \E c \in Calls : CheckoutCreateSession(c)
    \/ \E c \in Calls : CheckoutSessionFails(c)
    \/ \E c \in Calls : CheckoutStoreSession(c)
    \/ \E s \in 1..MaxOrders : CustomerPays(s)
    \/ \E c \in Calls, u \in Buyers, s \in 1..MaxOrders : PaymentStart(c, u, s)
    \/ \E c \in Calls : PaymentUpdateOrder(c)
    \/ \E c \in Calls : PaymentDecrement(c)
    \/ \E c \in Calls : PaymentDecrementFails(c)
    \/ \E c \in Calls : PaymentClearCart(c)

SpecUnitOfWork == Init /\ [][NextUnitOfWork]_vars

(* status changes with a notification service that may fail *)
NotifiedStatuses == {"SHIPPED", "CANCELLED"}

NextNotifications ==
    \/ \E c \in Calls, u \in Buyers : CheckoutStart(c, u, ThreeOfA, "standard", "CA")
    \/ \E c \in Calls : CheckoutCheckLine(c)
    \/ \E c \in Calls : CheckoutCreateOrder(c)
    \/ \E c \in Calls : CheckoutCreateSession(c)
    \/ \E c \in Calls : CheckoutSessionFails(c)
    \/ \E c \in Calls : CheckoutStoreSession(c)
    \/ \E s \in 1..MaxOrders : CustomerPays(s)
    \/ \E c \in Calls, u \in Buyers, s \in 1..MaxOrders : PaymentStart(c, u, s)
    \/ \E c \in Calls : PaymentUpdateOrder(c)
    \/ \E c \in Calls : PaymentDecrement(c)
    \/ \E c \in Calls, delivered \in BOOLEAN : PaymentFinish(c, delivered)
    \/ \E c \in Calls, o \in OrderIds, status \in NotifiedStatuses, delivered \in BOOLEAN :
          UpdateOrderStatusNotify(c, o, status, delivered)

SpecNotifications == Init /\ [][NextNotifications]_vars

(* ----------------------------- getInventory ---------------------------- *)
\* getInventory, a function cached under the tag 'inventory': the entry of the data
\* cache is returned when there is one, else the products are read and the result
\* is stored.  requirePermission(PRODUCT_READ): the calls modelled are the admin's
GetInventory(c) ==
    /\ CanStart(c)
    /\ started' = started + 1
    /\ LET result == IF inventoryCache = NoEntry THEN inventory ELSE inventoryCache IN
       /\ inventoryCache' = result
       /\ calls' = [calls EXCEPT ![c] =
             [IdleCall EXCEPT !.op = "getInventory", !.pc = "done", !.result = "ok",
                              !.stock = result]]
    /\ UNCHANGED <<nextItemId, isActive, carts, inventory, orders, nextOrderId, sessions, cart>>

\* the entry is older than its revalidate period of 120 seconds and is dropped
CacheExpires ==
    /\ inventoryCache # NoEntry
    /\ inventoryCache' = NoEntry
    /\ UNCHANGED <<nextItemId, isActive, carts, inventory, orders, nextOrderId, sessions, cart,
                   calls, started>>

(* the operations that change stock, and cached reads of the stock *)
NextInventoryCache ==
    \/ \E c \in Calls, u \in Buyers : CheckoutStart(c, u, ThreeOfA, "standard", "CA")
    \/ \E c \in Calls : CheckoutCheckLine(c)
    \/ \E c \in Calls : CheckoutCreateOrder(c)
    \/ \E c \in Calls : CheckoutCreateSession(c)
    \/ \E c \in Calls : CheckoutSessionFails(c)
    \/ \E c \in Calls : CheckoutStoreSession(c)
    \/ \E c \in Calls, u \in Buyers, s \in 1..MaxOrders : PaymentStart(c, u, s)
    \/ \E c \in Calls : PaymentUpdateOrder(c)
    \/ \E c \in Calls : PaymentDecrement(c)
    \/ \E c \in Calls : PaymentClearCart(c)
    \/ \E c \in Calls, u \in Buyers, o \in OrderIds : CancelStart(c, u, o)
    \/ \E c \in Calls : CancelRestock(c)
    \/ \E c \in Calls : CancelUpdateOrder(c)
    \/ \E c \in Calls, o \in OrderIds : DeleteStart(c, o)
    \/ \E c \in Calls : DeleteRestock(c)
    \/ \E c \in Calls : DeleteRow(c)
    \/ \E c \in Calls, p \in Products, q \in AdjustQuantities : AdjustStart(c, p, q, "ADD")
    \/ \E c \in Calls : AdjustWrite(c)
    \/ \E c \in Calls : GetInventory(c)
    \/ CacheExpires

SpecInventoryCache == Init /\ [][NextInventoryCache]_vars

(* the order status changes, without stock adjustments of the admin *)
NextOrderStatus ==
    \/ \E c \in Calls, u \in Buyers : CheckoutStart(c, u, ThreeOfA, "standard", "CA")
    \/ \E c \in Calls : CheckoutCheckLine(c)
    \/ \E c \in Calls : CheckoutCreateOrder(c)
    \/ \E c \in Calls : CheckoutCreateSession(c)
    \/ \E c \in Calls : CheckoutSessionFails(c)
    \/ \E c \in Calls : CheckoutStoreSession(c)
    \/ \E s \in 1..MaxOrders : CustomerPays(s)
    \/ \E c \in Calls, u \in Buyers, s \in 1..MaxOrders : PaymentStart(c, u, s)
    \/ \E c \in Calls : PaymentUpdateOrder(c)
    \/ \E c \in Calls : PaymentDecrement(c)
    \/ \E c \in Calls : PaymentClearCart(c)
    \/ \E c \in Calls, u \in Buyers, o \in OrderIds : CancelStart(c, u, o)
    \/ \E c \in Calls : CancelRestock(c)
    \/ \E c \in Calls : CancelUpdateOrder(c)
    \/ \E c \in Calls, o \in OrderIds : DeleteStart(c, o)
    \/ \E c \in Calls : DeleteRestock(c)
    \/ \E c \in Calls : DeleteRow(c)
    \/ \E c \in Calls, o \in OrderIds, status \in OrderStatuses :
          UpdateOrderStatus(c, o, status)

SpecOrderStatus == Init /\ [][NextOrderStatus]_vars

(* cancelOrder called by anybody for orders of every status *)
\* who calls cancelOrder: the owner, another user, nobody signed in
Callers == Users \cup {"none"}

NextCancel ==
    \/ \E c \in Calls, u \in Buyers : CheckoutStart(c, u, ThreeOfA, "standard", "CA")
    \/ \E c \in Calls : CheckoutCheckLine(c)
    \/ \E c \in Calls : CheckoutCreateOrder(c)
    \/ \E c \in Calls : CheckoutCreateSession(c)
    \/ \E c \in Calls : CheckoutSessionFails(c)
    \/ \E c \in Calls : CheckoutStoreSession(c)
    \/ \E c \in Calls, u \in Callers, o \in OrderIds : CancelStart(c, u, o)
    \/ \E c \in Calls : CancelRestock(c)
    \/ \E c \in Calls : CancelUpdateOrder(c)
    \/ \E c \in Calls, o \in OrderIds, status \in OrderStatuses :
          UpdateOrderStatus(c, o, status)

SpecCancel == Init /\ [][NextCancel]_vars

(* stock adjustments of the admin next to a payment and a cancellation *)
\* quantities of two adjustments that can be told apart
RestockQuantities == {1, 2}

NextAdjustments ==
    \/ \E c \in Calls, p \in Products, q \in RestockQuantities,
          operation \in AdjustOperations : AdjustStart(c, p, q, operation)
    \/ \E c \in Calls : AdjustWrite(c)

SpecAdjustments == Init /\ [][NextAdjustments]_vars

(* ------------------------------ middleware ----------------------------- *)
\* a pathname is the sequence of its characters
AdminPath == <<"/", "a", "d", "m", "i", "n">>
ProfilePath == <<"/", "p", "r", "o", "f", "i", "l", "e">>
OrdersPath == <<"/", "o", "r", "d", "e", "r", "s">>
SignInPath == <<"/", "a", "u", "t", "h", "/", "s", "i", "g", "n", "i", "n">>
SignUpPath == <<"/", "a", "u", "t", "h", "/", "s", "i", "g", "n", "u", "p">>
ApiAdminPath == <<"/", "a", "p", "i", "/", "a", "d", "m", "i", "n">>
ApiProfilePath == <<"/", "a", "p", "i", "/", "p", "r", "o", "f", "i", "l", "e">>
ApiOrdersPath == <<"/", "a", "p", "i", "/", "o", "r", "d", "e", "r", "s">>

\* const adminRoutes, protectedRoutes, authRoutes, protectedApiRoutes
adminRoutes == {AdminPath}
protectedRoutes == {ProfilePath, OrdersPath}
authRoutes == {SignInPath, SignUpPath}
protectedApiRoutes == {ApiProfilePath, ApiOrdersPath}

\* pathname.startsWith(route)
StartsWith(pathname, route) ==
    /\ Len(pathname) >= Len(route)
    /\ SubSeq(pathname, 1, Len(route)) = route

\* routes.some(route => pathname.startsWith(route))
SomeStartsWith(routes, pathname) == \E route \in routes : StartsWith(pathname, route)

\* a check that takes every token for an admin's
AnyTokenIsAdmin(role) == TRUE

\* token.role !== 'admin', negated
IsAdmin(role) == role = "admin"

\* middleware(request): the response.  role "none" stands for no token (getToken
\* returned null); "next" is NextResponse.next() with the security headers
middleware(request) ==
    LET pathname == request.pathname
        token == request.role # "none" IN
    IF SomeStartsWith(adminRoutes, pathname) /\ ~token
    THEN "redirect /auth/signin"
    ELSE IF SomeStartsWith(adminRoutes, pathname) /\ ~IsAdmin(request.role)
    THEN "redirect /access-denied"
    ELSE IF SomeStartsWith(protectedRoutes, pathname) /\ ~token
    THEN "redirect /auth/signin"
    ELSE IF SomeStartsWith(authRoutes, pathname) /\ token
    THEN (IF request.callbackUrl # <<>> /\ request.callbackUrl # SignInPath
          THEN "redirect callbackUrl" ELSE "redirect /profile")
    ELSE IF StartsWith(pathname, ApiAdminPath) /\ ~token
    THEN "401"
    ELSE IF StartsWith(pathname, ApiAdminPath) /\ ~IsAdmin(request.role)
    THEN "403"
    ELSE IF SomeStartsWith(protectedApiRoutes, pathname) /\ ~token
    THEN "401"
    ELSE IF request.production /\ request.proto # "https"
    THEN "redirect https"
    ELSE "next"

\* the pathnames of the requests: each route, a page under it, a path that only
\* shares its first characters, and pages no list names
Pathnames ==
    { AdminPath, AdminPath \o <<"/", "p", "r", "o", "d", "u", "c", "t", "s">>, AdminPath \o <<"i", "s", "t", "r", "a", "t", "o", "r">>,
      ProfilePath, OrdersPath \o <<"/", "7">>, SignInPath,
      ApiAdminPath \o <<"/", "u", "s", "e", "r", "s">>, ApiOrdersPath, <<"/">>,
      <<"/", "p", "r", "o", "d", "u", "c", "t", "s">>, <<"/", "A", "d", "m", "i", "n">> }

\* token.role of the session token, "none" without a token.  The roles the
\* database knows are upper case
Roles == {"none", "admin", "ADMIN", "customer"}

Requests ==
    [pathname : Pathnames, role : Roles, callbackUrl : {<<>>, SignInPath, ProfilePath},
     production : BOOLEAN, proto : {"https", "http"}]

\* the middleware answers a request: getToken reads the request's cookie, nothing
\* of the store is read or written
Middleware(c, request) ==
    /\ CanStart(c)
    /\ started' = started + 1
    /\ calls' = [calls EXCEPT ![c] =
          [IdleCall EXCEPT !.op = "middleware", !.pc = "done",
                           !.request = request, !.response = middleware(request)]]
    /\ UNCHANGED <<inventoryCache, nextItemId, isActive, carts, inventory, orders, nextOrderId, sessions, cart>>

NextMiddleware == \E c \in Calls, request \in Requests : Middleware(c, request)

SpecMiddleware == Init /\ [][NextMiddleware]_vars

(* ======================== properties of the core ======================= *)
RECURSIVE QuantityOf(_, _)
\* units of product p on the lines of an order
QuantityOf(items, p) ==
    IF items = <<>> THEN 0
    ELSE (IF Head(items).productId = p THEN Head(items).quantity ELSE 0)
         + QuantityOf(Tail(items), p)

RECURSIVE QuantityOnOrders(_, _, _)
\* units of product p on the orders 1..n whose status is in statuses
QuantityOnOrders(n, p, statuses) ==
    IF n = 0 THEN 0
    ELSE (IF orders[n].status \in statuses THEN QuantityOf(orders[n].items, p) ELSE 0)
         + QuantityOnOrders(n - 1, p, statuses)

\* units of p taken out of stock for paid orders
Committed(p) == QuantityOnOrders(MaxOrders, p, {"PROCESSING"})
\* units of p on orders that wait for their payment
Reserved(p) == QuantityOnOrders(MaxOrders, p, {"PENDING"})
\* the stock that existed: what is on the shelf plus what paid orders took
TotalStock(p) == inventory[p] + Committed(p)
Available(p) == TotalStock(p) - Reserved(p) - Committed(p)

IsCall(c, op) == calls[c].op = op
Returned(c, op, res) == IsCall(c, op) /\ calls[c].pc = "done" /\ calls[c].result = res
\* request c takes a step
Steps(c, op) == IsCall(c, op) /\ InFlight(c) /\ calls'[c] # calls[c]

\* C1: for every product, in every reachable state, the stock counter is never
\* negative and the quantity held by paid and pending orders never exceeds the
\* stock that existed (available = totalStock - reserved - committed >= 0).
C1_StockNeverOversold ==
    \A p \in Products :
        /\ inventory[p] >= 0
        /\ Committed(p) + Reserved(p) <= TotalStock(p)

\* two checkouts of 3 units of A each, started against 5 units, have both returned,
\* neither of them for a failure of the payment processor
TwoCheckoutsOfThreeReturned ==
    /\ started = 2
    /\ \A c \in Calls : /\ IsCall(c, "createCheckout") /\ calls[c].pc = "done"
                        /\ calls[c].items = ThreeOfA
                        /\ calls[c].result \in {"ok", "Insufficient inventory"}

\* C2: with 5 units of A in stock and two concurrent checkouts of 3 units each,
\* exactly one checkout succeeds, leaving 2 units available, and the other one is
\* refused with the insufficient-inventory error.
C2_ExactlyOneCheckoutSucceeds ==
    TwoCheckoutsOfThreeReturned =>
        /\ \E c, d \in Calls : /\ c # d
                               /\ calls[c].result = "ok"
                               /\ calls[d].result = "Insufficient inventory"
        /\ Available("A") = InitialInventory["A"] - 3

\* request c has deducted the stock of the lines of its order
HasDeducted(c) ==
    /\ IsCall(c, "processSuccessfulPayment")
    /\ \/ calls[c].pc = "decrement" /\ calls[c].idx > 1
       \/ calls[c].pc = "clear"
       \/ calls[c].pc = "done" /\ calls[c].result = "ok"

\* C3: the payment-success notification of one paid session, processed twice,
\* deducts the stock of the order's lines once: the second delivery is a no-op.
C3_DuplicatePaymentIsNoOp ==
    \A c, d \in Calls :
        (c # d /\ HasDeducted(c) /\ HasDeducted(d) /\ sessions[calls[c].session].paid)
            => calls[c].session # calls[d].session

\* the payment processor reports the payment of a session of order o as succeeded
PaymentSucceeded(o) ==
    \E s \in 1..Len(sessions) : sessions[s].orderId = o /\ sessions[s].paid

\* C4: an order goes from PENDING to PROCESSING, and its stock is deducted, only
\* for a session whose payment the processor reported as succeeded.
C4_ProcessingOnlyAfterPayment ==
    [][ /\ \A o \in OrderIds :
              (orders[o].status = "PENDING" /\ orders'[o].status = "PROCESSING")
                  => PaymentSucceeded(o)
        /\ \A c \in Calls :
              (Steps(c, "processSuccessfulPayment") /\ inventory' # inventory)
                  => PaymentSucceeded(calls[c].order) ]_vars

AllowedTransitions ==
    { <<"PENDING", "PROCESSING">>, <<"PENDING", "CANCELLED">>,
      <<"PROCESSING", "CANCELLED">>, <<"PROCESSING", "SHIPPED">>,
      <<"SHIPPED", "DELIVERED">>, <<"DELIVERED", "REFUNDED">>,
      <<"CANCELLED", "REFUNDED">> }

\* C5: the status of an order changes only along the allowed transitions; a request
\* for any other transition leaves the order as it was.
C5_OnlyAllowedTransitions ==
    [][ \A o \in OrderIds :
           (Exists(o) /\ orders'[o].status \notin {"NONE", orders[o].status})
               => <<orders[o].status, orders'[o].status>> \in AllowedTransitions ]_vars

\* C6: once CANCELLED, an order never becomes PROCESSING and no payment-success
\* processing deducts its stock; a REFUNDED order never changes its status.  The
\* order is one whose payment has succeeded: the notification is a genuine one.
C6_CancelledStaysCancelled ==
    [][ /\ \A o \in OrderIds :
              /\ (orders[o].status = "CANCELLED" /\ PaymentSucceeded(o))
                    => orders'[o].status # "PROCESSING"
              /\ orders[o].status = "REFUNDED" => orders'[o].status \in {"REFUNDED", "NONE"}
        /\ \A c \in Calls :
              (Steps(c, "processSuccessfulPayment") /\ calls[c].seen = "CANCELLED")
                  => inventory' = inventory ]_vars

\* C7: a cancelOrder call that found its order in PROCESSING raises, line by line,
\* the stock of the line's product by exactly the line's quantity, and sets the
\* order to CANCELLED only after every line has been restocked.
C7_CancelProcessingRestocks ==
    [][ \A c \in Calls :
           (Steps(c, "cancelOrder") /\ calls[c].seen = "PROCESSING") =>
              IF calls[c].pc = "restock"
              THEN /\ calls[c].idx \in 1..Len(calls[c].items)
                   /\ \A p \in Products :
                         inventory'[p] = inventory[p]
                            + (IF p = calls[c].items[calls[c].idx].productId
                               THEN calls[c].items[calls[c].idx].quantity ELSE 0)
                   /\ orders' = orders
              ELSE /\ calls[c].idx = Len(calls[c].items) + 1
                   /\ inventory' = inventory
                   /\ calls'[c].pc = "done"
                   /\ calls'[c].result = "ok" => orders'[calls[c].order].status = "CANCELLED"
                   /\ calls'[c].result # "ok" => ~Exists(calls[c].order) ]_vars

\* a cancellation of a paid order of 3 units of A has returned: the order is
\* CANCELLED and the 3 units the payment took are back in stock
C7_Witness ==
    /\ started = 3
    /\ Returned(1, "cancelOrder", "ok")
    /\ calls[1].seen = "PROCESSING"
    /\ calls[1].items = ThreeOfA
    /\ calls[2].op = "idle"
    /\ orders[calls[1].order].status = "CANCELLED"
    /\ inventory = InitialInventory

\* C8: every PROCESSING -> CANCELLED transition restocks the order's quantities:
\* updateOrderStatus to CANCELLED on a PROCESSING order adds each line's quantity
\* back to the stock, as cancelOrder does.
C8_AdminCancelRestocks ==
    [][ \A c \in Calls, o \in OrderIds :
           (UpdateOrderStatus(c, o, "CANCELLED") /\ orders[o].status = "PROCESSING")
               => \A p \in Products :
                     inventory'[p] = inventory[p] + QuantityOf(orders[o].items, p) ]_vars

\* request c has returned quantities of its order to the stock
HasRestocked(c) ==
    /\ \/ IsCall(c, "cancelOrder") /\ CancelRestocks(calls[c].seen)
       \/ IsCall(c, "deleteOrder") /\ DeleteRestocks(calls[c].seen)
    /\ \/ calls[c].pc = "restock" /\ calls[c].idx > 1
       \/ calls[c].pc \in {"cancel", "delete", "done"}

\* C9: the quantities of an order are returned to the stock at most once, under any
\* interleaving of two cancelOrder calls, or of cancelOrder and deleteOrder.
C9_RestockedAtMostOnce ==
    \A c, d \in Calls :
        (c # d /\ HasRestocked(c) /\ HasRestocked(d)) => calls[c].order # calls[d].order

\* C10: a checkout never changes the stock, and a checkout that meets a line it
\* cannot satisfy returns the insufficient-inventory error at once, with no order
\* created by it.
C10_CheckoutAllOrNothing ==
    [][ \A c \in Calls :
           Steps(c, "createCheckout") =>
              /\ inventory' = inventory
              /\ (/\ calls[c].pc = "check"
                  /\ inventory[calls[c].items[calls[c].idx].productId]
                        < calls[c].items[calls[c].idx].quantity)
                     => /\ Returned(c, "createCheckout", "Insufficient inventory")'
                        /\ calls[c].order = 0
                        /\ orders' = orders
                        /\ sessions' = sessions ]_vars

\* the checkout of {A: 2, B: 100} against 1 unit of B has been refused: no order
\* exists and the stock of A and B is what it was
C10_Witness ==
    /\ started = 1
    /\ Returned(1, "createCheckout", "Insufficient inventory")
    /\ calls[1].items = <<Line("A", 2), Line("B", 100)>>
    /\ \A o \in OrderIds : ~Exists(o)
    /\ inventory = InitialInventory

\* request c is taken by a checkout entry point in this step
StartsCheckout(c) ==
    /\ ~InFlight(c)
    /\ calls'[c] # calls[c]
    /\ calls'[c].op \in {"createCheckout", "POST"}

CheckoutSteps(c) ==
    /\ calls[c].op \in {"createCheckout", "POST"}
    /\ InFlight(c)
    /\ calls'[c] # calls[c]

\* C12: neither checkout entry point creates an order or a payment session for a
\* line whose product does not exist or is not active: whenever a checkout creates
\* one, the product of every line it orders is on sale.
C12_OnlySellableProductsOrdered ==
    [][ \A c \in Calls :
           (CheckoutSteps(c) /\ (sessions' # sessions \/ nextOrderId' # nextOrderId)) =>
              \A k \in 1..Len(calls[c].items) :
                 /\ calls[c].items[k].productId \in Products
                 /\ isActive[calls[c].items[k].productId] ]_vars

\* C13: every order satisfies total = subtotal + tax + shipping, with none of the
\* three components negative, from its creation on and through its status changes.
C13_TotalIsSumOfParts ==
    \A o \in OrderIds :
        Exists(o) =>
            /\ orders[o].total = orders[o].subtotal + orders[o].tax + orders[o].shippingCost
            /\ orders[o].subtotal >= 0
            /\ orders[o].tax >= 0
            /\ orders[o].shippingCost >= 0

\* an order of the cart {A: 1} shipped express to TX, with tax and shipping charged,
\* has since been cancelled
C13_Witness ==
    \E o \in OrderIds :
        /\ orders[o].status = "CANCELLED"
        /\ orders[o].subtotal = 2000
        /\ orders[o].shippingCost = 1299
        /\ orders[o].tax = 130
        /\ orders[o].total = 3429

RECURSIVE LinesTotal(_)
\* the sum over the lines of an order of the line's unit price times its quantity
LinesTotal(items) ==
    IF items = <<>> THEN 0
    ELSE Head(items).price * Head(items).quantity + LinesTotal(Tail(items))

\* C14: the subtotal of every order created by checkout equals the sum over the
\* order's own lines of the line's snapshot unit price times the line's quantity.
C14_SubtotalMatchesLines ==
    \A o \in OrderIds :
        Exists(o) => orders[o].subtotal = LinesTotal(orders[o].items)

\* C15: in every reachable state of every cart, each line has a quantity of at
\* least 1 and no two lines are of the same product, under any interleaving of
\* addToCart, updateCartItem, removeFromCart, clearCart and mergeGuestCart.
C15_CartLinesWellFormed ==
    \A i \in Identities :
        \A k \in 1..Len(cart[i]) :
            /\ cart[i][k].quantity >= 1
            /\ \A j \in 1..Len(cart[i]) :
                  j # k => cart[i][j].productId # cart[i][k].productId

RECURSIVE CartQuantity(_, _)
\* units of product p on the rows of a cart
CartQuantity(rows, p) ==
    IF rows = <<>> THEN 0
    ELSE (IF Head(rows).productId = p THEN Head(rows).quantity ELSE 0)
         + CartQuantity(Tail(rows), p)

\* the merge of the guest's cart into the user's is the only request so far and
\* has returned
OnlyMergeReturned ==
    /\ started = 1
    /\ Returned(1, "mergeGuestCart", "ok")
    /\ calls[1].items = InitialCart["g1"]

\* C16: mergeGuestCart gives every line the sum of the guest cart's and the user
\* cart's quantities, clamped to the stock of the product: guest {A: 2} merged into
\* user {A: 1} gives {A: 3} with 10 units of A in stock and {A: 2} with 2.
C16_MergeClampsToStock ==
    OnlyMergeReturned =>
        \A p \in Products :
            LET sum == CartQuantity(InitialCart["g1"], p) + CartQuantity(InitialCart["u2"], p) IN
            CartQuantity(cart["u2"], p) = IF sum <= inventory[p] THEN sum ELSE inventory[p]

\* every request so far is a mergeGuestCart
OnlyMerges ==
    /\ \A c \in Calls : calls[c] # IdleCall => calls[c].op = "mergeGuestCart"
    /\ started = Cardinality({c \in Calls : calls[c].op = "mergeGuestCart"})

\* C17: a guest cart is merged into the user's cart once: under any repetition or
\* interleaving of mergeGuestCart calls, the quantities of the guest cart are
\* added to the user's cart at most once.
C17_GuestCartMergedOnce ==
    OnlyMerges =>
        \A p \in Products :
            CartQuantity(cart["u2"], p)
                <= CartQuantity(InitialCart["u2"], p) + CartQuantity(InitialCart["g1"], p)

\* C18: when processSuccessfulPayment returns with success, the cart of the order's
\* owner is empty and the cart of no other identity has changed.
C18_PaymentClearsOwnersCart ==
    [][ \A c \in Calls :
          (Steps(c, "processSuccessfulPayment") /\ Returned(c, "processSuccessfulPayment", "ok")')
             => LET owner == orders[calls[c].order].userId IN
                /\ cart'[owner] = <<>>
                /\ \A i \in Identities \ {owner} : cart'[i] = cart[i] ]_vars

\* C19: once the processor has reported that the payment of a session failed or
\* expired, the session's order is not PENDING: the report moves it to CANCELLED.
C19_FailedPaymentCancelsOrder ==
    \A s \in 1..Len(sessions) :
        (sessions[s].expired /\ Exists(sessions[s].orderId))
            => orders[sessions[s].orderId].status # "PENDING"

\* C20: an order does not stay PENDING for ever: a PENDING order is eventually
\* paid for or moved to CANCELLED, whatever customers and the processor do.
C20_UnpaidOrderEventuallyCancelled ==
    \A o \in OrderIds :
        (Exists(o) /\ orders[o].status = "PENDING")
            ~> (Exists(o) /\ (orders[o].status = "CANCELLED" \/ PaymentSucceeded(o)))

\* the session a payment notification names resolves to an order that exists
Resolves(s) ==
    /\ s \in 1..Len(sessions)
    /\ sessions[s].orderId \in OrderIds
    /\ orders[sessions[s].orderId].status # "NONE"

C22_NotificationFailureNotFatal ==
    [][ /\ \A c \in Calls :
             PaymentFinish(c, FALSE)
                => /\ Returned(c, "processSuccessfulPayment", "ok")'
                   /\ calls'[c].email = "failed"
                   /\ orders' = orders
                   /\ inventory' = inventory
        /\ \A c \in Calls, o \in OrderIds, status \in OrderStatuses :
             (UpdateOrderStatusNotify(c, o, status, FALSE) /\ Exists(o))
                => /\ Returned(c, "updateOrderStatus", "ok")'
                   /\ orders'[o].status = status
                   /\ inventory' = inventory ]_vars

\* the payment of order 1 was processed and the order then shipped, both with a
\* notification that could not be sent
C22_Witness ==
    /\ Returned(1, "processSuccessfulPayment", "ok") /\ calls[1].email = "failed"
    /\ Returned(2, "updateOrderStatus", "ok") /\ calls[2].email = "failed"
    /\ calls[1].order = 1 /\ calls[2].order = 1
    /\ orders[1].status = "SHIPPED"
    /\ inventory["A"] = InitialInventory["A"] - 3

\* no processSuccessfulPayment request is in flight
NoPaymentInFlight ==
    \A c \in Calls : ~(IsCall(c, "processSuccessfulPayment") /\ InFlight(c))

\* C24: applying a payment success is one unit of work: whenever every
\* processSuccessfulPayment call has returned (with success or with a failure
\* part-way), each order is PROCESSING with the stock of all its lines deducted once
\* or PENDING with nothing deducted, so what has left the stock of each product is
\* what is on the PROCESSING orders.
C24_PaymentIsOneUnitOfWork ==
    NoPaymentInFlight =>
        \A p \in Products :
            InitialInventory[p] - inventory[p]
                = QuantityOnOrders(MaxOrders, p, {"PROCESSING"})

\* the pathname is route or lies under it
Under(pathname, route) ==
    \/ pathname = route
    \/ /\ Len(pathname) > Len(route)
       /\ SubSeq(pathname, 1, Len(route) + 1) = route \o <<"/">>

\* C23: the middleware lets a request to a path under /admin proceed only with a
\* token whose role is 'admin'; without a token it redirects to /auth/signin, with
\* a token of another role to /access-denied; a request to a path under /profile or
\* /orders proceeds only with a token.
C23_MiddlewareGuardsRoutes ==
    \A c \in Calls :
        (IsCall(c, "middleware") /\ calls[c].pc = "done") =>
            LET request == calls[c].request
                response == calls[c].response IN
            /\ Under(request.pathname, <<"/", "a", "d", "m", "i", "n">>) =>
                  /\ response = "next" => request.role = "admin"
                  /\ request.role = "none" => response = "redirect /auth/signin"
                  /\ request.role \notin {"none", "admin"} => response = "redirect /access-denied"
            /\ (\/ Under(request.pathname, <<"/", "p", "r", "o", "f", "i", "l", "e">>)
                \/ Under(request.pathname, <<"/", "o", "r", "d", "e", "r", "s">>)) =>
                  (response = "next" => request.role # "none")

\* a customer's request to /admin/products has been sent to /access-denied
C23_Witness ==
    /\ IsCall(1, "middleware") /\ calls[1].pc = "done"
    /\ calls[1].request.pathname = AdminPath \o <<"/", "p", "r", "o", "d", "u", "c", "t", "s">>
    /\ calls[1].request.role = "customer"
    /\ calls[1].response = "redirect /access-denied"

\* two updateProductInventory ADD calls for product p are the only requests so far
\* and both have returned
TwoAddsReturned(p) ==
    /\ started = 2
    /\ \A c \in Calls :
          /\ Returned(c, "updateProductInventory", "ok")
          /\ calls[c].product = p /\ calls[c].mode = "ADD"

\* C25: the mutations of one product's stock are serialized: after two
\* updateProductInventory ADD calls for the same product, in any interleaving, the
\* stock is the initial stock plus both quantities; no update is lost.
C25_StockMutationsSerialized ==
    \A p \in Products :
        TwoAddsReturned(p) =>
            inventory[p] = InitialInventory[p] + calls[1].qty + calls[2].qty

\* no request that changes stock is in flight
StockOperations ==
    {"processSuccessfulPayment", "cancelOrder", "deleteOrder", "updateProductInventory"}

NoStockOperationInFlight ==
    \A c \in Calls : ~(calls[c].op \in StockOperations /\ InFlight(c))

\* C26: every operation that changes stock invalidates the 'inventory' tag before it
\* returns: a getInventory call made when every such operation has returned yields
\* the stock of the database, never the stock from before an operation.
C26_InventoryReadIsFresh ==
    [][ \A c \in Calls :
          (GetInventory(c) /\ NoStockOperationInFlight) => calls'[c].stock = inventory ]_vars

\* session s names an order that exists, or an order that exists names session s
SessionHasOrder(s) ==
    \/ Exists(sessions[s].orderId)
    \/ \E o \in OrderIds : Exists(o) /\ orders[o].stripeSessionId = s

\* C27: in both checkout entry points the PENDING order is created before the
\* payment session is requested: every payment session that exists at the
\* processor belongs to an order that exists.
C27_OrderBeforeSession ==
    \A s \in 1..Len(sessions) : SessionHasOrder(s)

\* every request has returned
AllReturned == \A c \in Calls : ~InFlight(c)

\* C28: without stock adjustments of the admin, for every product the stock plus
\* the quantity on the orders that are PROCESSING, SHIPPED or DELIVERED is what the
\* stock was at the start, whenever processSuccessfulPayment, cancelOrder,
\* deleteOrder and updateOrderStatus have run to their return in any interleaving:
\* status changes create and lose no unit.
C28_UnitsConserved ==
    AllReturned =>
        \A p \in Products :
            inventory[p] + QuantityOnOrders(MaxOrders, p, {"PROCESSING", "SHIPPED", "DELIVERED"})
                = InitialInventory[p]

\* C29: a createCheckout call that returns a failure leaves no order behind: the
\* order it created, if it created one, is not in the order store when it returns.
C29_FailedCheckoutLeavesNoOrder ==
    [][ \A c \in Calls :
          (/\ Steps(c, "createCheckout")
           /\ calls'[c].pc = "done" /\ calls'[c].result # "ok")
             => (calls[c].order = 0 \/ orders'[calls[c].order].status = "NONE") ]_vars

\* C30: cancelOrder changes state only for the owner of an order it finds PENDING or
\* PROCESSING: a call by nobody signed in, by a user who does not own the order, for
\* a missing order or for an order that is SHIPPED, DELIVERED, CANCELLED or REFUNDED
\* returns an error at once and changes no order and no stock; no step of a call
\* that found the order PENDING changes a product's stock.
C30_CancelOnlyByOwnerWhenCancellable ==
    [][ /\ \A c \in Calls, u \in Callers, o \in OrderIds :
             (/\ CancelStart(c, u, o)
              /\ \/ u = "none"
                 \/ orders[o].status = "NONE"
                 \/ orders[o].userId # u
                 \/ orders[o].status \in {"SHIPPED", "DELIVERED", "CANCELLED", "REFUNDED"})
                => /\ calls'[c].pc = "done"
                   /\ calls'[c].result \in {"Authentication required", "Order not found",
                                             "Unauthorized", "Order cannot be cancelled"}
                   /\ orders' = orders
                   /\ inventory' = inventory
        /\ \A c \in Calls :
             (Steps(c, "cancelOrder") /\ calls[c].seen = "PENDING") => inventory' = inventory
      ]_vars

\* a cancellation of the SHIPPED order 1 by its owner and a cancellation by nobody
\* signed in have both been refused; the stock is what it was
C30_Witness ==
    /\ \E c \in Calls : Returned(c, "cancelOrder", "Order cannot be cancelled")
    /\ \E c \in Calls : Returned(c, "cancelOrder", "Authentication required")
    /\ orders[1].status = "SHIPPED"
    /\ inventory = InitialInventory
====
